---------------------------- MODULE Spec2Model ----------------------------
(***************************************************************************)
(* Model of tugraph/procedures/cpp/tsr2.cpp: the label-filtered edge       *)
(* cursor (LabeledEdgeIterator) and the windowed aggregation of Process.   *)
(*                                                                         *)
(* One Account vertex is modelled with its outgoing and its incoming edge  *)
(* list.  The store keeps a vertex's edges of one direction sorted by      *)
(* (label id, temporal id, ...); for the transfer label the temporal id is *)
(* the timestamp field.  Amounts are fixed-point numbers counted in Ticks  *)
(* per thousandth, so that rounding to three decimals is not the identity. *)
(***************************************************************************)
EXTENDS Integers, Sequences, FiniteSets, TLC

(***************************************************************************)
(* Bounds of the model.                                                    *)
(***************************************************************************)
MaxEdges == 3      \* edges incident on the vertex, both directions together
MaxTime == 3       \* timestamps, start_time and end_time range over 0..MaxTime
MaxWrites == 1     \* writes a concurrent writer commits during one query
MaxConcEdges == 1  \* edges of the vertex when the concurrent run starts
MaxIterEdges == 2  \* edges of both vertices when the cursor is driven alone
MaxIterTime == 1   \* temporal ids when the cursor is driven alone
MaxAcc == 30       \* accumulated values, in ticks, when rounding is applied alone

(***************************************************************************)
(* Program constants.                                                      *)
(***************************************************************************)
TransferLid == 2   \* the label id GetEdgeLabelId("transfer") resolves to
Milli == 1000      \* the factor of std::round(x * 1000.0) / 1000
Ticks == 10        \* fixed-point resolution: ticks per thousandth

One == Milli * Ticks            \* the double 1.0 in ticks
Times == 0..MaxTime
Amounts == {-5, 12}             \* -0.0005 and 0.0012
Labels == {TransferLid - 1, TransferLid, TransferLid + 1}
AccountIds == {1}               \* ids present under the Account unique index
RequestIds == {1, 2}

TransferEdges == [lid : {TransferLid}, ts : Times, amount : Amounts]
OtherEdges == [lid : Labels \ {TransferLid}, ts : {1}, amount : {12}]
Edges == TransferEdges \cup OtherEdges

(***************************************************************************)
(* The store's edge order: label id first, temporal id second.             *)
(***************************************************************************)
KeyLeq(l1, t1, l2, t2) == l1 < l2 \/ (l1 = l2 /\ t1 <= t2)

IsSorted(s) ==
  \A i \in 1..(Len(s) - 1) : KeyLeq(s[i].lid, s[i].ts, s[i + 1].lid, s[i + 1].ts)

SortedLists(E, n) == {s \in [1..n -> E] : IsSorted(s)}

SortedUpTo(E, n) == UNION {SortedLists(E, k) : k \in 0..n}

Graphs(E, n) ==
  UNION {[out : SortedLists(E, k), in : SortedUpTo(E, n - k)] : k \in 0..n}


(***************************************************************************)
(* Requests.  A request is JSON text: it parses or not, and a parsed       *)
(* object holds some of the three fields.                                  *)
(***************************************************************************)
FieldNames == {"id", "startTime", "endTime"}

OkRequests ==
  [parses : {TRUE}, fields : {FieldNames},
   id : RequestIds, startTime : Times, endTime : Times]

BadRequests ==
  [parses : {FALSE}, fields : {FieldNames},
   id : {1}, startTime : {0}, endTime : {MaxTime}]
  \cup
  [parses : {TRUE}, fields : {FieldNames \ {f} : f \in FieldNames},
   id : {1}, startTime : {0}, endTime : {MaxTime}]

Requests == OkRequests \cup BadRequests

\* json::parse(request) throws on text that is no JSON.
JsonParseThrows(req) == ~req.parses

\* parse_from_json(value, key, input) fails when the object lacks the field.
ParseFromJsonThrows(req, key) == key \notin req.fields

\* The try block of Process: any of the four calls throws.
ParseThrows(req) ==
  \/ JsonParseThrows(req)
  \/ ParseFromJsonThrows(req, "id")
  \/ ParseFromJsonThrows(req, "startTime")
  \/ ParseFromJsonThrows(req, "endTime")

(***************************************************************************)
(* The store's directional edge cursor over one edge list: a position in   *)
(* 1..Len(edges), or Len(edges) + 1 when it has run out.                   *)
(***************************************************************************)
SetMin(S) == CHOOSE x \in S : \A y \in S : x <= y

\* The seek with the temporal id left at its default 0: the label's first edge.
GotoLabelStart(edges, lid, tid) ==
  LET hits == {i \in 1..Len(edges) : KeyLeq(lid, 0, edges[i].lid, edges[i].ts)}
  IN  IF hits = {} THEN Len(edges) + 1 ELSE SetMin(hits)

\* Goto(EdgeUid(.., lid, tid, 0), nearest = true): the first edge at or after
\* the locator, in the store's order.
GotoNearest(edges, lid, tid) ==
  LET hits == {i \in 1..Len(edges) : KeyLeq(lid, tid, edges[i].lid, edges[i].ts)}
  IN  IF hits = {} THEN Len(edges) + 1 ELSE SetMin(hits)

EITIsValid(edges, pos) == pos \in 1..Len(edges)

GetLabelId(edges, pos) == edges[pos].lid

\* EIT::Next(): one position forward.
\* A Next that leaves the cursor where it is.
EITNextStays(edges, pos) == pos

EITNext(edges, pos) == IF EITIsValid(edges, pos) THEN pos + 1 ELSE pos

(***************************************************************************)
(* LabeledEdgeIterator<EIT>: the cursor, the target label lid_ and valid_. *)
(***************************************************************************)
\* Validity without the label test.
ValidityAnyLabel(edges, pos, lid) == EITIsValid(edges, pos)

Validity(edges, pos, lid) == EITIsValid(edges, pos) /\ GetLabelId(edges, pos) = lid

LabeledEdgeIterator(edges, pos, lid) ==
  [pos |-> pos, lid_ |-> lid, valid_ |-> Validity(edges, pos, lid)]

\* Next without the early return on an invalid iterator.
LabeledNextUnguarded(edges, it) ==
  LET p == EITNext(edges, it.pos)
  IN  [it EXCEPT !.pos = p, !.valid_ = Validity(edges, p, it.lid_)]

\* Next that tests the cursor and not the label.
LabeledNextAnyLabel(edges, it) ==
  IF ~it.valid_ THEN it
  ELSE LET p == EITNext(edges, it.pos)
       IN  [it EXCEPT !.pos = p, !.valid_ = EITIsValid(edges, p)]

LabeledNext(edges, it) ==
  IF ~it.valid_ THEN it
  ELSE LET p == EITNext(edges, it.pos)
       IN  [it EXCEPT !.pos = p, !.valid_ = Validity(edges, p, it.lid_)]

(***************************************************************************)
(* The store under Reset: every vertex's edge list of one direction.  The  *)
(* locators Reset builds hold 0 in the other endpoint's slot and in the    *)
(* edge id, the least values, so the order (label id, temporal id) decides *)
(* where the seek lands.                                                   *)
(***************************************************************************)
Vids == {0, 1}
IterTimes == 0..MaxIterTime
IterEdges == [lid : Labels, ts : IterTimes, amount : {12}]

IterStores ==
  UNION {{[v \in Vids |-> IF v = 0 THEN a ELSE b] :
            a \in SortedLists(IterEdges, k),
            b \in SortedUpTo(IterEdges, MaxIterEdges - k)} :
         k \in 0..MaxIterEdges}

EdgeUid(src, dst, lid, tid, eid) ==
  [src |-> src, dst |-> dst, lid |-> lid, tid |-> tid, eid |-> eid]

\* EIT::Goto(euid, nearest = true): an out cursor goes to the edges of
\* euid.src, an in cursor to those of euid.dst, and there to the first edge
\* at or after the locator.
EITGoto(store, d, euid) ==
  LET v == IF d = "out" THEN euid.src ELSE euid.dst
  IN  [vid |-> v, pos |-> GotoNearest(store[v], euid.lid, euid.tid)]

\* The locator with the vertex in the other slot.
ResetLocatorSwapped(d, vid, lid, tid) ==
  IF d = "out" THEN EdgeUid(0, vid, lid, tid, 0) ELSE EdgeUid(vid, 0, lid, tid, 0)

\* The locator of Reset: std::is_same<EIT, OutEdgeIterator> picks the slot.
ResetLocator(d, vid, lid, tid) ==
  IF d = "out" THEN EdgeUid(vid, 0, lid, tid, 0) ELSE EdgeUid(0, vid, lid, tid, 0)

\* Reset that moves the cursor and keeps the validity it had.
LabeledResetStale(store, d, lei, vid, lid, tid) ==
  LET g == EITGoto(store, d, ResetLocator(d, vid, lid, tid))
  IN  [vid |-> g.vid,
       it |-> [pos |-> g.pos, lid_ |-> lid, valid_ |-> lei.it.valid_]]

\* Reset(vid, lid, tid) on the iterator lei = [vid, it].
LabeledReset(store, d, lei, vid, lid, tid) ==
  LET g == EITGoto(store, d, ResetLocator(d, vid, lid, tid))
  IN  [vid |-> g.vid,
       it |-> [pos |-> g.pos, lid_ |-> lid,
               valid_ |-> Validity(store[g.vid], g.pos, lid)]]

\* The in cursor built over the out edges.
InEdgesAsOut(g) == g.out

\* The edge list a cursor of each direction walks.
OutEdgesOf(g) == g.out
InEdgesOf(g) == g.in

LabeledOutEdgeIterator(g, lid, tid) ==
  LabeledEdgeIterator(OutEdgesOf(g), GotoNearest(OutEdgesOf(g), lid, tid), lid)

LabeledInEdgeIterator(g, lid, tid) ==
  LabeledEdgeIterator(InEdgesOf(g), GotoNearest(InEdgesOf(g), lid, tid), lid)

(***************************************************************************)
(* Arithmetic of the aggregation, in ticks.                                *)
(***************************************************************************)
\* Rounding by floor(x * 1000.0 + 0.5) / 1000: halves towards plus infinity.
Round3Floor(x) == ((x + Ticks \div 2) \div Ticks) * Ticks

\* std::round(x * 1000.0) / 1000: to the nearest thousandth, halves away
\* from zero.
Round3(x) ==
  IF x >= 0 THEN ((x + Ticks \div 2) \div Ticks) * Ticks
  ELSE -(((-x + Ticks \div 2) \div Ticks) * Ticks)

NewMax(m, amount) == IF amount > m THEN amount ELSE m

\* The accumulated max reported as it is.
SentinelNever(cnt, m) == m

\* max = -1 when nothing was counted.
Sentinel(cnt, m) == IF cnt = 0 THEN -One ELSE m

(***************************************************************************)
(* State.                                                                  *)
(***************************************************************************)
VARIABLES
  db,          \* the store: the committed edge lists of the Account vertex
  declared,    \* whether the schema declares the transfer edge type
  writes,      \* writes committed by the concurrent writer
  request,     \* the argument of Process
  pc,          \* the position of Process
  id, start_time, end_time,
  txn,         \* the read transaction's view of the store, or NoTxn
  storeOps,    \* the store calls made so far, in order
  eit,         \* the labeled cursor of the running loop
  sum_out, max_out, count_out,
  sum_in, max_in, count_in,
  probe,       \* per direction: what the cursor was asked to do
  response,    \* the response string, as a sequence of <<name, value>>
  ret,         \* "none" while running, "true", "false" or "exception"
  edgesOf,     \* a cursor driven alone: each vertex's edge list
  dirn,        \* ... its direction, "out" or "in"
  lei,         \* ... the LabeledEdgeIterator: [vid, it]
  called,      \* ... the last call made on it
  acc,         \* rounding applied alone: the accumulated value
  rounded      \* ... and the value reported for it

vars ==
  <<db, declared, writes, request, pc, id, start_time, end_time, txn, storeOps,
    eit, sum_out, max_out, count_out, sum_in, max_in, count_in, probe,
    response, ret, edgesOf, dirn, lei, called, acc, rounded>>

unitVars == <<edgesOf, dirn, lei, called, acc, rounded>>

NoTxn == [out |-> <<>>, in |-> <<>>, open |-> FALSE]
NoVal == -1
NoEit == [pos |-> 0, lid_ |-> 0, valid_ |-> FALSE]
NoProbe ==
  [seek |-> 0, reads |-> {}, counted |-> {}, advances |-> 0, last |-> 0,
   broke |-> FALSE]

\* CreateReadTxn: the transaction sees the store as committed at this moment.
Snapshot(g) == [out |-> g.out, in |-> g.in, open |-> TRUE]

\* The in scan under a view of its own, taken from the store when it reads.
InScanGraphFresh == Snapshot(db)

\* The graph each scan's cursor walks: both cursors come from vit, a vertex
\* iterator of the one transaction txn.
OutScanGraph == txn
InScanGraph == txn

HasTransfer(g) ==
  \/ \E i \in 1..Len(g.out) : g.out[i].lid = TransferLid
  \/ \E i \in 1..Len(g.in) : g.in[i].lid = TransferLid

NotRounded == [done |-> FALSE, value |-> 0]

\* Nothing is driven alone while Process runs.
UnitIdle ==
  /\ edgesOf = [v \in Vids |-> <<>>]
  /\ dirn = "out"
  /\ lei = [vid |-> 0, it |-> NoEit]
  /\ called = [op |-> "none"]
  /\ acc = 0
  /\ rounded = NotRounded

InitWith(graphs, requests) ==
  /\ UnitIdle
  /\ db \in graphs
  /\ declared \in {d \in BOOLEAN : d \/ ~HasTransfer(db)}
  /\ writes = 0
  /\ request \in requests
  /\ pc = "parse"
  /\ id = NoVal /\ start_time = NoVal /\ end_time = NoVal
  /\ txn = NoTxn
  /\ storeOps = <<>>
  /\ eit = NoEit
  /\ sum_out = 0 /\ max_out = 0 /\ count_out = 0
  /\ sum_in = 0 /\ max_in = 0 /\ count_in = 0
  /\ probe = [out |-> NoProbe, in |-> NoProbe]
  /\ response = <<>>
  /\ ret = "none"

Init == InitWith(Graphs(Edges, MaxEdges), Requests)

storeVars == <<db, declared, writes>>
reqVars == <<request, id, start_time, end_time>>
outVars == <<sum_out, max_out, count_out>>
inVars == <<sum_in, max_in, count_in>>

\* The handler without its return: the message is set and Process goes on.
ParseErrorFallsThrough ==
  /\ pc = "parse"
  /\ ParseThrows(request)
  /\ response' = << <<"msg", "json parse error">> >>
  /\ pc' = "txn"
  /\ UNCHANGED unitVars
  /\ UNCHANGED <<storeVars, reqVars, txn, storeOps, eit, outVars, inVars, probe,
                 ret>>

(***************************************************************************)
(* Process, lines 89-101: parse the request.                               *)
(***************************************************************************)
ParseError ==
  /\ pc = "parse"
  /\ ParseThrows(request)
  /\ response' = << <<"msg", "json parse error">> >>
  /\ ret' = "false"
  /\ pc' = "done"
  /\ UNCHANGED unitVars
  /\ UNCHANGED <<storeVars, reqVars, txn, storeOps, eit, outVars, inVars, probe>>

ParseOk ==
  /\ pc = "parse"
  /\ ~ParseThrows(request)
  /\ id' = request.id
  /\ start_time' = request.startTime
  /\ end_time' = request.endTime
  /\ pc' = "txn"
  /\ UNCHANGED unitVars
  /\ UNCHANGED <<storeVars, request, txn, storeOps, eit, outVars, inVars, probe,
                 response, ret>>

(***************************************************************************)
(* Lines 103-111: the read transaction, the vertex, the label id.          *)
(***************************************************************************)
CreateReadTxn ==
  /\ pc = "txn"
  /\ txn' = Snapshot(db)
  /\ storeOps' = Append(storeOps, "CreateReadTxn")
  /\ pc' = "vertex"
  /\ UNCHANGED unitVars
  /\ UNCHANGED <<storeVars, reqVars, eit, outVars, inVars, probe, response, ret>>

\* GetVertexByUniqueIndex throws when no vertex has the id.
VertexLookupThrows == id \notin AccountIds

\* GetEdgeLabelId throws when the schema does not declare the label.
LabelLookupThrows == ~declared

\* A lookup failure answered with an empty record.
PropagateAsEmpty ==
  /\ ret' = "true"
  /\ pc' = "done"
  /\ response' = << <<"sumEdge1Amount", 0>>, <<"maxEdge1Amount", -One>>,
                    <<"numEdge1", 0>>, <<"sumEdge2Amount", 0>>,
                    <<"maxEdge2Amount", -One>>, <<"numEdge2", 0>> >>

\* An exception of lines 103-111 is caught nowhere in Process: the call ends
\* by the exception, response untouched.
Propagate ==
  /\ ret' = "exception"
  /\ pc' = "done"
  /\ UNCHANGED response

GetVertexThrow ==
  /\ pc = "vertex"
  /\ VertexLookupThrows
  /\ storeOps' = Append(storeOps, "GetVertexByUniqueIndex")
  /\ Propagate
  /\ UNCHANGED unitVars
  /\ UNCHANGED <<storeVars, reqVars, txn, eit, outVars, inVars, probe>>

GetVertex ==
  /\ pc = "vertex"
  /\ ~VertexLookupThrows
  /\ storeOps' = Append(storeOps, "GetVertexByUniqueIndex")
  /\ pc' = "label"
  /\ UNCHANGED unitVars
  /\ UNCHANGED <<storeVars, reqVars, txn, eit, outVars, inVars, probe, response, ret>>

GetEdgeLabelIdThrow ==
  /\ pc = "label"
  /\ LabelLookupThrows
  /\ storeOps' = Append(storeOps, "GetEdgeLabelId")
  /\ Propagate
  /\ UNCHANGED unitVars
  /\ UNCHANGED <<storeVars, reqVars, txn, eit, outVars, inVars, probe>>

GetEdgeLabelId ==
  /\ pc = "label"
  /\ ~LabelLookupThrows
  /\ storeOps' = Append(storeOps, "GetEdgeLabelId")
  /\ pc' = "out_init"
  /\ UNCHANGED unitVars
  /\ UNCHANGED <<storeVars, reqVars, txn, eit, outVars, inVars, probe, response, ret>>

(***************************************************************************)
(* The scan loops.  eit.GetField reads the edge under the cursor.          *)
(***************************************************************************)
Timestamp(edges, it) == edges[it.pos].ts
Amount(edges, it) == edges[it.pos].amount

\* The start test as a one-sided comparison.
SkipsBelow(ts) == ts < start_time

\* The end test with the end boundary closed.
BreaksAfterEnd(ts) == ts # start_time /\ ts > end_time

\* The end test answered by going on to the next edge, not by leaving.
BreaksNever(ts) == FALSE

\* The tests of the loop body, in the order the body makes them.
\* The skip test placed after the end test: an edge at start_time that is at
\* or after end_time stops the scan.
SkipsInWindow(ts) == ts = start_time /\ ts < end_time

Skips(ts) == ts = start_time
Breaks(ts) == ~Skips(ts) /\ ts >= end_time
Counts(ts) == ~Skips(ts) /\ ~Breaks(ts)

\* The instrumented cursor.
ProbeSeek(p, it) == [p EXCEPT !.seek = it.pos, !.last = it.pos]
ProbeRead(p, it) == [p EXCEPT !.reads = @ \cup {it.pos}]
ProbeNext(p, it, nit) ==
  [p EXCEPT !.advances = IF it.valid_ THEN @ + 1 ELSE @, !.last = nit.pos]
ProbeCount(p, it) == [p EXCEPT !.counted = @ \cup {it.pos}]
ProbeBreak(p) == [p EXCEPT !.broke = TRUE]

(***************************************************************************)
(* Lines 113-135: the outgoing scan.                                       *)
(***************************************************************************)
OutInit ==
  /\ pc = "out_init"
  /\ sum_out' = 0 /\ max_out' = 0 /\ count_out' = 0
  /\ eit' = LabeledOutEdgeIterator(OutScanGraph, TransferLid, start_time)
  /\ storeOps' = Append(storeOps, "GetOutEdgeIterator")
  /\ probe' = [probe EXCEPT !.out = ProbeSeek(@, eit')]
  /\ pc' = "out_loop"
  /\ UNCHANGED unitVars
  /\ UNCHANGED <<storeVars, reqVars, txn, inVars, response, ret>>

OutSkip ==
  /\ pc = "out_loop"
  /\ eit.valid_
  /\ Skips(Timestamp(OutEdgesOf(OutScanGraph), eit))
  /\ eit' = LabeledNext(OutEdgesOf(OutScanGraph), eit)
  /\ probe' = [probe EXCEPT !.out = ProbeNext(ProbeRead(@, eit), eit, eit')]
  /\ UNCHANGED unitVars
  /\ UNCHANGED <<storeVars, reqVars, pc, txn, storeOps, outVars, inVars,
                 response, ret>>

OutBreak ==
  /\ pc = "out_loop"
  /\ eit.valid_
  /\ Breaks(Timestamp(OutEdgesOf(OutScanGraph), eit))
  /\ probe' = [probe EXCEPT !.out = ProbeBreak(ProbeRead(@, eit))]
  /\ pc' = "out_round"
  /\ UNCHANGED unitVars
  /\ UNCHANGED <<storeVars, reqVars, txn, storeOps, eit, outVars, inVars,
                 response, ret>>

OutCount ==
  /\ pc = "out_loop"
  /\ eit.valid_
  /\ Counts(Timestamp(OutEdgesOf(OutScanGraph), eit))
  /\ count_out' = count_out + 1
  /\ sum_out' = sum_out + Amount(OutEdgesOf(OutScanGraph), eit)
  /\ max_out' = NewMax(max_out, Amount(OutEdgesOf(OutScanGraph), eit))
  /\ eit' = LabeledNext(OutEdgesOf(OutScanGraph), eit)
  /\ probe' = [probe EXCEPT
                 !.out = ProbeNext(ProbeCount(ProbeRead(@, eit), eit), eit, eit')]
  /\ UNCHANGED unitVars
  /\ UNCHANGED <<storeVars, reqVars, pc, txn, storeOps, inVars, response, ret>>

OutEnd ==
  /\ pc = "out_loop"
  /\ ~eit.valid_
  /\ pc' = "out_round"
  /\ UNCHANGED unitVars
  /\ UNCHANGED <<storeVars, reqVars, txn, storeOps, eit, outVars, inVars, probe,
                 response, ret>>

OutRound ==
  /\ pc = "out_round"
  /\ sum_out' = Round3(sum_out)
  /\ max_out' = Sentinel(count_out, Round3(max_out))
  /\ pc' = "in_init"
  /\ UNCHANGED unitVars
  /\ UNCHANGED <<storeVars, reqVars, txn, storeOps, eit, count_out, inVars, probe,
                 response, ret>>

(***************************************************************************)
(* Lines 137-159: the incoming scan.                                       *)
(***************************************************************************)
InInit ==
  /\ pc = "in_init"
  /\ sum_in' = 0 /\ max_in' = 0 /\ count_in' = 0
  /\ eit' = LabeledInEdgeIterator(InScanGraph, TransferLid, start_time)
  /\ storeOps' = Append(storeOps, "GetInEdgeIterator")
  /\ probe' = [probe EXCEPT !.in = ProbeSeek(@, eit')]
  /\ pc' = "in_loop"
  /\ UNCHANGED unitVars
  /\ UNCHANGED <<storeVars, reqVars, txn, outVars, response, ret>>

InSkip ==
  /\ pc = "in_loop"
  /\ eit.valid_
  /\ Skips(Timestamp(InEdgesOf(InScanGraph), eit))
  /\ eit' = LabeledNext(InEdgesOf(InScanGraph), eit)
  /\ probe' = [probe EXCEPT !.in = ProbeNext(ProbeRead(@, eit), eit, eit')]
  /\ UNCHANGED unitVars
  /\ UNCHANGED <<storeVars, reqVars, pc, txn, storeOps, outVars, inVars,
                 response, ret>>

InBreak ==
  /\ pc = "in_loop"
  /\ eit.valid_
  /\ Breaks(Timestamp(InEdgesOf(InScanGraph), eit))
  /\ probe' = [probe EXCEPT !.in = ProbeBreak(ProbeRead(@, eit))]
  /\ pc' = "in_round"
  /\ UNCHANGED unitVars
  /\ UNCHANGED <<storeVars, reqVars, txn, storeOps, eit, outVars, inVars,
                 response, ret>>

InCount ==
  /\ pc = "in_loop"
  /\ eit.valid_
  /\ Counts(Timestamp(InEdgesOf(InScanGraph), eit))
  /\ count_in' = count_in + 1
  /\ sum_in' = sum_in + Amount(InEdgesOf(InScanGraph), eit)
  /\ max_in' = NewMax(max_in, Amount(InEdgesOf(InScanGraph), eit))
  /\ eit' = LabeledNext(InEdgesOf(InScanGraph), eit)
  /\ probe' = [probe EXCEPT
                 !.in = ProbeNext(ProbeCount(ProbeRead(@, eit), eit), eit, eit')]
  /\ UNCHANGED unitVars
  /\ UNCHANGED <<storeVars, reqVars, pc, txn, storeOps, outVars, response, ret>>

InEnd ==
  /\ pc = "in_loop"
  /\ ~eit.valid_
  /\ pc' = "in_round"
  /\ UNCHANGED unitVars
  /\ UNCHANGED <<storeVars, reqVars, txn, storeOps, eit, outVars, inVars, probe,
                 response, ret>>

InRound ==
  /\ pc = "in_round"
  /\ sum_in' = Round3(sum_in)
  /\ max_in' = Sentinel(count_in, Round3(max_in))
  /\ pc' = "emit"
  /\ UNCHANGED unitVars
  /\ UNCHANGED <<storeVars, reqVars, txn, storeOps, eit, count_in, outVars, probe,
                 response, ret>>

(***************************************************************************)
(* Lines 161-177: the result record.                                       *)
(***************************************************************************)
\* The record with the two directions' values exchanged.
RecordSwapped(so, mo, co, si, mi, ci) ==
  << <<"sumEdge1Amount", si>>, <<"maxEdge1Amount", mi>>, <<"numEdge1", ci>>,
     <<"sumEdge2Amount", so>>, <<"maxEdge2Amount", mo>>, <<"numEdge2", co>> >>

Record(so, mo, co, si, mi, ci) ==
  << <<"sumEdge1Amount", so>>, <<"maxEdge1Amount", mo>>, <<"numEdge1", co>>,
     <<"sumEdge2Amount", si>>, <<"maxEdge2Amount", mi>>, <<"numEdge2", ci>> >>

Emit ==
  /\ pc = "emit"
  /\ response' = Record(sum_out, max_out, count_out, sum_in, max_in, count_in)
  /\ ret' = "true"
  /\ pc' = "done"
  /\ UNCHANGED unitVars
  /\ UNCHANGED <<storeVars, reqVars, txn, storeOps, eit, outVars, inVars, probe>>

Next ==
  \/ ParseError \/ ParseOk
  \/ CreateReadTxn
  \/ GetVertexThrow \/ GetVertex
  \/ GetEdgeLabelIdThrow \/ GetEdgeLabelId
  \/ OutInit \/ OutSkip \/ OutBreak \/ OutCount \/ OutEnd \/ OutRound
  \/ InInit \/ InSkip \/ InBreak \/ InCount \/ InEnd \/ InRound
  \/ Emit

Spec == Init /\ [][Next]_vars


(***************************************************************************)
(* A concurrent writer commits transfer edges to the store, or removes     *)
(* them, at any moment of the query.                                       *)
(***************************************************************************)
InsertSorted(s, e) ==
  LET k == Cardinality({i \in 1..Len(s) : KeyLeq(s[i].lid, s[i].ts, e.lid, e.ts)})
  IN  SubSeq(s, 1, k) \o <<e>> \o SubSeq(s, k + 1, Len(s))

RemoveAt(s, i) == SubSeq(s, 1, i - 1) \o SubSeq(s, i + 1, Len(s))

WriterAdd ==
  /\ pc # "done"
  /\ declared
  /\ writes < MaxWrites
  /\ \E e \in TransferEdges :
       \/ db' = [db EXCEPT !.out = InsertSorted(@, e)]
       \/ db' = [db EXCEPT !.in = InsertSorted(@, e)]
  /\ writes' = writes + 1
  /\ UNCHANGED unitVars
  /\ UNCHANGED <<declared, reqVars, pc, txn, storeOps, eit, outVars, inVars,
                 probe, response, ret>>

WriterRemove ==
  /\ pc # "done"
  /\ writes < MaxWrites
  /\ \/ \E i \in 1..Len(db.out) :
          /\ db.out[i].lid = TransferLid
          /\ db' = [db EXCEPT !.out = RemoveAt(@, i)]
     \/ \E i \in 1..Len(db.in) :
          /\ db.in[i].lid = TransferLid
          /\ db' = [db EXCEPT !.in = RemoveAt(@, i)]
  /\ writes' = writes + 1
  /\ UNCHANGED unitVars
  /\ UNCHANGED <<declared, reqVars, pc, txn, storeOps, eit, outVars, inVars,
                 probe, response, ret>>

\* The concurrent run looks at the widest windows, where a written edge can
\* change a result.
ConcRequests ==
  BadRequests
  \cup [parses : {TRUE}, fields : {FieldNames},
        id : RequestIds, startTime : {0, 1}, endTime : {MaxTime}]

InitConc == InitWith(Graphs(Edges, MaxConcEdges), ConcRequests)

\* Process is one sequential call: once invoked it keeps executing until it
\* returns or throws, so a step that can be taken is eventually taken.  Every
\* store of Spec is scanned, for the windows that open at 0 or 1 and close at
\* the last time.
InitFair == InitWith(Graphs(Edges, MaxEdges), ConcRequests)

SpecFair == InitFair /\ [][Next]_vars /\ WF_vars(Next)

NextConc == Next \/ WriterAdd \/ WriterRemove

SpecConc == InitConc /\ [][NextConc]_vars

(***************************************************************************)
(* The LabeledEdgeIterator driven alone: constructed over a raw cursor at  *)
(* any position of any vertex with any target label, then called with     *)
(* Next() and Reset(vid, lid, tid) in any order.  Process does not run.    *)
(***************************************************************************)
processVars ==
  <<db, declared, writes, request, pc, id, start_time, end_time, txn, storeOps,
    eit, sum_out, max_out, count_out, sum_in, max_in, count_in, probe,
    response, ret>>

ProcessIdle ==
  /\ db = [out |-> <<>>, in |-> <<>>]
  /\ declared = TRUE
  /\ writes = 0
  /\ request = [parses |-> FALSE, fields |-> {}, id |-> 1, startTime |-> 0,
                endTime |-> 0]
  /\ pc = "idle"
  /\ id = NoVal /\ start_time = NoVal /\ end_time = NoVal
  /\ txn = NoTxn
  /\ storeOps = <<>>
  /\ eit = NoEit
  /\ sum_out = 0 /\ max_out = 0 /\ count_out = 0
  /\ sum_in = 0 /\ max_in = 0 /\ count_in = 0
  /\ probe = [out |-> NoProbe, in |-> NoProbe]
  /\ response = <<>>
  /\ ret = "none"

InitIter ==
  /\ ProcessIdle
  /\ acc = 0 /\ rounded = NotRounded
  /\ edgesOf \in IterStores
  /\ dirn \in {"out", "in"}
  /\ \E v \in Vids, lid \in Labels :
       \E pos \in 1..(Len(edgesOf[v]) + 1) :
         /\ lei = [vid |-> v, it |-> LabeledEdgeIterator(edgesOf[v], pos, lid)]
         /\ called = [op |-> "ctor", ret |-> lei.it.valid_, was |-> FALSE,
                      vid |-> v, lid |-> lid, tid |-> 0]

IterNext ==
  /\ pc = "idle"
  /\ called.op # "none"
  /\ lei' = [lei EXCEPT !.it = LabeledNext(edgesOf[lei.vid], lei.it)]
  /\ called' = [op |-> "Next", ret |-> lei'.it.valid_, was |-> lei.it.valid_,
                vid |-> lei.vid, lid |-> lei.it.lid_, tid |-> 0]
  /\ UNCHANGED <<processVars, edgesOf, dirn, acc, rounded>>

IterReset ==
  /\ pc = "idle"
  /\ called.op # "none"
  /\ \E v \in Vids, lid \in Labels, tid \in IterTimes :
       /\ lei' = LabeledReset(edgesOf, dirn, lei, v, lid, tid)
       /\ called' = [op |-> "Reset", ret |-> lei'.it.valid_,
                     was |-> lei.it.valid_, vid |-> v, lid |-> lid, tid |-> tid]
  /\ UNCHANGED <<processVars, edgesOf, dirn, acc, rounded>>

NextIter == IterNext \/ IterReset

SpecIter == InitIter /\ [][NextIter]_vars

(***************************************************************************)
(* The rounding of lines 133-134 and 157-158 applied alone to an           *)
(* accumulated value.                                                      *)
(***************************************************************************)
InitRound ==
  /\ ProcessIdle
  /\ edgesOf = [v \in Vids |-> <<>>]
  /\ dirn = "out"
  /\ lei = [vid |-> 0, it |-> NoEit]
  /\ called = [op |-> "none"]
  /\ acc \in (-MaxAcc)..MaxAcc
  /\ rounded = NotRounded

RoundAcc ==
  /\ pc = "idle"
  /\ called.op = "none"
  /\ ~rounded.done
  /\ rounded' = [done |-> TRUE, value |-> Round3(acc)]
  /\ UNCHANGED <<processVars, edgesOf, dirn, lei, called, acc>>

NextRound == RoundAcc

SpecRound == InitRound /\ [][NextRound]_vars

(***************************************************************************)
(* What the claims speak of.                                               *)
(***************************************************************************)
Returned == pc = "done" /\ ret = "true"

\* The out scan, respectively the in scan, has left its loop.
OutScanned == pc \in {"out_round", "in_init", "in_loop", "in_round", "emit"} \/ Returned
InScanned == pc \in {"in_round", "emit"} \/ Returned

IsTransfer(edges, i) == edges[i].lid = TransferLid

\* The edges of the target label strictly inside (start_time, end_time).
InWindow(edges) ==
  {i \in 1..Len(edges) :
     IsTransfer(edges, i) /\ start_time < edges[i].ts /\ edges[i].ts < end_time}

RECURSIVE SumAmounts(_, _)
SumAmounts(edges, S) ==
  IF S = {} THEN 0
  ELSE LET i == CHOOSE x \in S : TRUE
       IN  edges[i].amount + SumAmounts(edges, S \ {i})

\* Field k of the result record.
Field(k) == response[k][2]

(***************************************************************************)
(* C1: in a returned record, the count of each direction is the number of  *)
(* transfer edges of that direction with start_time < timestamp < end_time *)
(* and the sum is the sum of the amounts of exactly those edges.           *)
(* C1_Exact states it with the sum as it is; C1_WindowedSum with the sum   *)
(* rounded to three decimals, which is what the record holds.              *)
(***************************************************************************)
C1_Counted ==
  /\ probe.out.counted = InWindow(txn.out)
  /\ probe.in.counted = InWindow(txn.in)
  /\ Field(3) = Cardinality(InWindow(txn.out))
  /\ Field(6) = Cardinality(InWindow(txn.in))

C1_Exact ==
  Returned =>
    /\ C1_Counted
    /\ Field(1) = SumAmounts(txn.out, InWindow(txn.out))
    /\ Field(4) = SumAmounts(txn.in, InWindow(txn.in))

C1_WindowedSum ==
  Returned =>
    /\ C1_Counted
    /\ Field(1) = Round3(SumAmounts(txn.out, InWindow(txn.out)))
    /\ Field(4) = Round3(SumAmounts(txn.in, InWindow(txn.in)))

\* Scenario 1: transfer edges before or at start_time, inside the window and
\* at or after end_time, and only the one inside is counted.
C1_Witness ==
  /\ Returned
  /\ Field(3) = 1
  /\ \E i, j, k \in 1..Len(txn.out) :
       /\ IsTransfer(txn.out, i) /\ txn.out[i].ts <= start_time
       /\ j \in InWindow(txn.out)
       /\ IsTransfer(txn.out, k) /\ txn.out[k].ts >= end_time

(***************************************************************************)
(* C2: an edge whose timestamp equals start_time is never counted, summed  *)
(* or taken for the max, in either scan, and the step that meets one moves *)
(* the cursor one position on and stays in the loop.                       *)
(***************************************************************************)
C2_NotCounted ==
  /\ \A i \in probe.out.counted : txn.out[i].ts # start_time
  /\ \A i \in probe.in.counted : txn.in[i].ts # start_time

C2_StepOut ==
  (pc = "out_loop" /\ eit.valid_ /\ txn.out[eit.pos].ts = start_time) =>
    /\ eit'.pos = eit.pos + 1
    /\ pc' = "out_loop"
    /\ UNCHANGED <<outVars, inVars>>

C2_StepIn ==
  (pc = "in_loop" /\ eit.valid_ /\ txn.in[eit.pos].ts = start_time) =>
    /\ eit'.pos = eit.pos + 1
    /\ pc' = "in_loop"
    /\ UNCHANGED <<outVars, inVars>>

C2_StartExcluded == [](C2_NotCounted) /\ [][C2_StepOut /\ C2_StepIn]_vars

\* Two edges at start_time were read in one scan, and the scan went on to
\* count a later edge.
C2_Witness ==
  /\ Returned
  /\ \E i, j \in probe.out.reads :
       /\ i # j
       /\ txn.out[i].ts = start_time /\ txn.out[j].ts = start_time
       /\ txn.out[i].amount # txn.out[j].amount
  /\ count_out = 1

(***************************************************************************)
(* C3: each scan stops at the first edge, in cursor order, whose timestamp *)
(* is >= end_time: the cursor is not advanced past it and no later edge is *)
(* read or counted.  C3_StopsAtFirstLate states it for every edge with     *)
(* timestamp >= end_time; C3_StopsAtFirstBeyond for every such edge whose  *)
(* timestamp is not start_time (an edge at start_time is skipped before    *)
(* the end test is made, which matters when end_time <= start_time).       *)
(***************************************************************************)
\* The positions the labeled cursor yields from its seek position on.
Yielded(edges, p) ==
  {i \in p.seek..Len(edges) : \A j \in p.seek..i : IsTransfer(edges, j)}

Late(edges, p) == {i \in Yielded(edges, p) : edges[i].ts >= end_time}

Beyond(edges, p) == {i \in Late(edges, p) : edges[i].ts # start_time}

\* The scan of cursor p stopped on edge k: k was read, nothing after it was,
\* the cursor rests on k and made no step but those from its seek to k.
StoppedAt(p, k) ==
  /\ p.broke
  /\ p.last = k
  /\ p.reads = p.seek..k
  /\ p.advances = k - p.seek
  /\ \A i \in p.counted : i < k

C3_StopsAtFirstLate ==
  /\ (OutScanned /\ Late(txn.out, probe.out) # {}) =>
        StoppedAt(probe.out, SetMin(Late(txn.out, probe.out)))
  /\ (InScanned /\ Late(txn.in, probe.in) # {}) =>
        StoppedAt(probe.in, SetMin(Late(txn.in, probe.in)))

C3_StopsAtFirstBeyond ==
  /\ (OutScanned /\ Beyond(txn.out, probe.out) # {}) =>
        StoppedAt(probe.out, SetMin(Beyond(txn.out, probe.out)))
  /\ (InScanned /\ Beyond(txn.in, probe.in) # {}) =>
        StoppedAt(probe.in, SetMin(Beyond(txn.in, probe.in)))

\* A scan counted an edge, stopped on the next, and a transfer edge follows
\* the one it stopped on.
C3_Witness ==
  /\ Returned
  /\ probe.in.broke
  /\ count_in = 1
  /\ probe.in.last < Len(txn.in)
  /\ IsTransfer(txn.in, Len(txn.in))

(***************************************************************************)
(* C4: in every result record, the outgoing count is 0 exactly when the    *)
(* outgoing max is -1, and the incoming count is 0 exactly when the        *)
(* incoming max is -1.                                                     *)
(***************************************************************************)
C4_ZeroIffSentinel ==
  Returned =>
    /\ (Field(3) = 0) <=> (Field(2) = -One)
    /\ (Field(6) = 0) <=> (Field(5) = -One)

\* One direction counted nothing; the other counted only negative amounts.
C4_Witness ==
  /\ Returned
  /\ Field(3) = 0
  /\ Field(6) > 0
  /\ \A i \in probe.in.counted : txn.in[i].amount < 0

(***************************************************************************)
(* C5: when the seek leaves the labeled cursor invalid, or no edge of the  *)
(* target label lies in the window, the direction counts nothing and       *)
(* reports count 0, sum 0.0 and max -1.                                    *)
(***************************************************************************)
SeekInvalid(edges, p) == ~(p.seek \in 1..Len(edges) /\ IsTransfer(edges, p.seek))

C5_EmptyDirection ==
  Returned =>
    /\ (SeekInvalid(txn.out, probe.out) \/ InWindow(txn.out) = {}) =>
          /\ probe.out.counted = {}
          /\ Field(1) = 0 /\ Field(2) = -One /\ Field(3) = 0
    /\ (SeekInvalid(txn.in, probe.in) \/ InWindow(txn.in) = {}) =>
          /\ probe.in.counted = {}
          /\ Field(4) = 0 /\ Field(5) = -One /\ Field(6) = 0

\* The out seek landed on an edge of another label; the in scan read
\* transfer edges, none of them in the window.
C5_Witness ==
  /\ Returned
  /\ probe.out.seek \in 1..Len(txn.out)
  /\ ~IsTransfer(txn.out, probe.out.seek)
  /\ probe.in.reads # {}
  /\ InWindow(txn.in) = {}
  /\ start_time < end_time

(***************************************************************************)
(* The aggregate of one edge list and the window, computed from the list   *)
(* alone: the rounded sum of the amounts in the window, the rounded        *)
(* greatest of 0 and those amounts (-1 when there are none), their number. *)
(***************************************************************************)
SetMax(S) == CHOOSE x \in S : \A y \in S : x >= y

Aggregate(edges) ==
  LET W == InWindow(edges)
  IN  <<Round3(SumAmounts(edges, W)),
        IF W = {} THEN -One
        ELSE Round3(SetMax({0} \cup {edges[i].amount : i \in W})),
        Cardinality(W)>>

(***************************************************************************)
(* C6: the outgoing sum, max and count are a function of the outgoing      *)
(* edges and the window alone, and the incoming ones of the incoming edges *)
(* and the window alone: the values of a direction are those computed from *)
(* that direction's edge list, whatever the other list holds, and no step  *)
(* of one scan changes the other scan's accumulators.                      *)
(***************************************************************************)
C6_Determined ==
  /\ OutScanned /\ pc # "out_round" =>
       <<sum_out, max_out, count_out>> = Aggregate(txn.out)
  /\ InScanned /\ pc # "in_round" =>
       <<sum_in, max_in, count_in>> = Aggregate(txn.in)

C6_Frame ==
  /\ pc \in {"in_init", "in_loop", "in_round", "emit"} => UNCHANGED outVars
  /\ pc \in {"out_loop", "out_round"} => UNCHANGED inVars

C6_Independent == [](C6_Determined) /\ [][C6_Frame]_vars

\* Both directions hold edges in the window and their aggregates differ in
\* every field.
C6_Witness ==
  /\ Returned
  /\ count_out > 0 /\ count_in > 0
  /\ sum_out # sum_in /\ max_out # max_in /\ count_out # count_in

(***************************************************************************)
(* C7: when the request does not parse, or lacks id, startTime or endTime, *)
(* Process returns false with a response that carries a message, and makes *)
(* no store call: no transaction, no lookup, no cursor.                    *)
(***************************************************************************)
C7_ParseErrorAborts ==
  ParseThrows(request) =>
    /\ storeOps = <<>>
    /\ ~txn.open
    /\ probe = [out |-> NoProbe, in |-> NoProbe]
    /\ pc \in {"parse", "done"}
    /\ pc = "done" =>
         /\ ret = "false"
         /\ Len(response) = 1 /\ response[1][1] = "msg"

\* Scenario 5: a request without endTime has been answered.
C7_Witness ==
  /\ pc = "done"
  /\ request.parses
  /\ request.fields = {"id", "startTime"}
  /\ ret = "false"

(***************************************************************************)
(* C8: when the id matches no Account vertex, or the transfer edge type is *)
(* not declared, the query fails: no result record is written, no edge     *)
(* scan is started and the call does not return success.                   *)
(***************************************************************************)
LookupFails == ~ParseThrows(request) /\ (request.id \notin AccountIds \/ ~declared)

C8_LookupFailureAborts ==
  LookupFails =>
    /\ response = <<>>
    /\ ret # "true"
    /\ probe = [out |-> NoProbe, in |-> NoProbe]
    /\ \A k \in 1..Len(storeOps) :
         storeOps[k] \notin {"GetOutEdgeIterator", "GetInEdgeIterator"}
    /\ pc \notin {"out_init", "out_loop", "out_round", "in_init", "in_loop",
                  "in_round", "emit"}
    /\ pc = "done" => ret = "exception"

\* Scenario 4: an unknown id over a vertex that has transfer edges.
C8_Witness ==
  /\ pc = "done"
  /\ request.id \notin AccountIds
  /\ ret = "exception"
  /\ HasTransfer(db)

(***************************************************************************)
(* C9: a finished call either returned true with one record of the six     *)
(* fields sumEdge1Amount, maxEdge1Amount, numEdge1 (outgoing) and           *)
(* sumEdge2Amount, maxEdge2Amount, numEdge2 (incoming), in this order, or   *)
(* failed with no result record; the response never holds a part of a       *)
(* record, nor the two directions' values exchanged.                        *)
(***************************************************************************)
FieldOrder ==
  <<"sumEdge1Amount", "maxEdge1Amount", "numEdge1",
    "sumEdge2Amount", "maxEdge2Amount", "numEdge2">>

FullRecord ==
  /\ Len(response) = 6
  /\ \A k \in 1..6 : response[k][1] = FieldOrder[k]
  /\ <<Field(1), Field(2), Field(3)>> = Aggregate(txn.out)
  /\ <<Field(4), Field(5), Field(6)>> = Aggregate(txn.in)

NoRecord == \A k \in 1..Len(response) : response[k][1] \notin
              {FieldOrder[j] : j \in 1..6}

C9_RecordOrFailure ==
  /\ pc # "done" => NoRecord /\ ret = "none"
  /\ pc = "done" =>
       \/ ret = "true" /\ FullRecord
       \/ ret \in {"false", "exception"} /\ NoRecord

\* Scenario 3: a record whose outgoing and incoming values differ.
C9_Witness ==
  /\ Returned
  /\ Aggregate(txn.out) # Aggregate(txn.in)
  /\ Field(3) > 0 /\ Field(6) > 0

(***************************************************************************)
(* C10: the query opens one read transaction; the view it took when it was *)
(* opened never changes while writers commit, and the outgoing and the     *)
(* incoming values of the record are both the aggregates of that one view. *)
(***************************************************************************)
OpensOnce ==
  Cardinality({k \in 1..Len(storeOps) : storeOps[k] = "CreateReadTxn"}) =
    IF txn.open THEN 1 ELSE 0

C10_View ==
  /\ OpensOnce
  /\ pc = "in_loop" => eit.valid_ = Validity(txn.in, eit.pos, TransferLid)
  /\ pc = "out_loop" => eit.valid_ = Validity(txn.out, eit.pos, TransferLid)
  /\ Returned =>
       /\ <<Field(1), Field(2), Field(3)>> = Aggregate(txn.out)
       /\ <<Field(4), Field(5), Field(6)>> = Aggregate(txn.in)

C10_Held ==
  /\ txn.open => txn' = txn
  /\ ~txn.open /\ txn'.open => txn' = Snapshot(db)

C10_OneSnapshot == [](C10_View) /\ [][C10_Held]_vars

\* A writer committed an incoming edge inside the window after the view was
\* taken, and the record does not show it.
C10_Witness ==
  /\ Returned
  /\ writes > 0
  /\ db.out = txn.out
  /\ Aggregate(db.in) # Aggregate(txn.in)
  /\ Field(3) > 0

(***************************************************************************)
(* C11: after construction and after every sequence of Next and Reset      *)
(* calls, IsValid() is true exactly when the underlying cursor is on a     *)
(* real edge and that edge's label id is the iterator's target label id.   *)
(***************************************************************************)
OnTargetEdge ==
  /\ lei.it.pos \in 1..Len(edgesOf[lei.vid])
  /\ edgesOf[lei.vid][lei.it.pos].lid = lei.it.lid_

C11_ValidIffOnTarget == called.op # "none" => (lei.it.valid_ <=> OnTargetEdge)

\* Reset took a valid iterator to an edge of another label.
C11_Witness ==
  /\ called.op = "Reset"
  /\ called.was
  /\ ~lei.it.valid_
  /\ lei.it.pos \in 1..Len(edgesOf[lei.vid])

(***************************************************************************)
(* C12: on an invalid iterator Next() returns false, does not move the     *)
(* underlying cursor and leaves IsValid() false, also when edges of the    *)
(* target label lie further along the cursor.                              *)
(***************************************************************************)
C12_NextOnInvalid ==
  (~lei.it.valid_ /\ called'.op = "Next") =>
     /\ called'.ret = FALSE
     /\ lei' = lei

C12_InvalidStays == [][C12_NextOnInvalid]_vars

\* Next was called on an invalid iterator whose cursor stands before an
\* edge of the target label.
C12_Witness ==
  /\ called.op = "Next"
  /\ ~called.was
  /\ \E j \in (lei.it.pos + 1)..Len(edgesOf[lei.vid]) :
       edgesOf[lei.vid][j].lid = lei.it.lid_

(***************************************************************************)
(* C13: Reset(vid, lid, tid) sets the target label to lid and moves the    *)
(* cursor to vertex vid (the source of an out cursor, the destination of   *)
(* an in cursor); whatever the validity was, the iterator is then valid    *)
(* exactly when vid has an edge of label lid with temporal id >= tid, and  *)
(* it then stands on the first such edge.                                  *)
(***************************************************************************)
ResetHits ==
  {i \in 1..Len(edgesOf[called.vid]) :
     /\ edgesOf[called.vid][i].lid = called.lid
     /\ edgesOf[called.vid][i].ts >= called.tid}

C13_ResetSeeks ==
  called.op = "Reset" =>
    /\ lei.vid = called.vid
    /\ lei.it.lid_ = called.lid
    /\ lei.it.valid_ <=> ResetHits # {}
    /\ lei.it.valid_ => lei.it.pos = SetMin(ResetHits)

\* Reset on an invalid iterator moved it to the other vertex, past an edge
\* of the label with a lesser temporal id, onto the first edge at or after.
C13_Witness ==
  /\ called.op = "Reset"
  /\ ~called.was
  /\ called.vid = 1
  /\ lei.it.valid_
  /\ lei.it.pos > 1
  /\ edgesOf[1][lei.it.pos - 1].lid = called.lid

(***************************************************************************)
(* C14: in every direction that counted at least one edge, the reported    *)
(* max is the greatest amount among the counted edges, whatever the        *)
(* amounts are (the greatest amount taken to three decimals, as the record *)
(* holds it).                                                              *)
(***************************************************************************)
Greatest(edges, S) == SetMax({edges[i].amount : i \in S})

C14_MaxIsGreatest ==
  Returned =>
    /\ Field(3) > 0 => Field(2) = Round3(Greatest(txn.out, probe.out.counted))
    /\ Field(6) > 0 => Field(5) = Round3(Greatest(txn.in, probe.in.counted))

(***************************************************************************)
(* C15: the reported value is the accumulated value rounded to three       *)
(* decimals.  C15_HalfUp states it with a value halfway between two        *)
(* thousandths going to the higher one; C15_HalfAwayFromZero with such a   *)
(* value going to the thousandth of the greater magnitude.                 *)
(***************************************************************************)
Abs(x) == IF x < 0 THEN -x ELSE x

IsThousandth(y) == y = (y \div Ticks) * Ticks

C15_HalfUp ==
  rounded.done =>
    /\ IsThousandth(rounded.value)
    /\ 2 * Abs(rounded.value - acc) <= Ticks
    /\ 2 * Abs(rounded.value - acc) = Ticks => rounded.value > acc

C15_HalfAwayFromZero ==
  rounded.done =>
    /\ IsThousandth(rounded.value)
    /\ 2 * Abs(rounded.value - acc) <= Ticks
    /\ 2 * Abs(rounded.value - acc) = Ticks => Abs(rounded.value) > Abs(acc)

\* A negative value halfway between two thousandths has been rounded.
C15_Witness ==
  /\ rounded.done
  /\ acc < 0
  /\ 2 * Abs(rounded.value - acc) = Ticks

(***************************************************************************)
(* C16: each scan ends and a query whose vertex and label were resolved    *)
(* produces its record; every iteration that goes round the loop, the      *)
(* skipping one included, moves the cursor on by exactly one edge, so a    *)
(* scan never advances more often than the vertex has edges at or after    *)
(* the place the scan sought to.                                           *)
(***************************************************************************)
EdgesFrom(edges, p) == IF p.seek = 0 THEN 0 ELSE Len(edges) + 1 - p.seek

C16_Bounded ==
  /\ probe.out.advances <= EdgesFrom(txn.out, probe.out)
  /\ probe.in.advances <= EdgesFrom(txn.in, probe.in)

C16_Iteration ==
  pc' = pc /\ pc \in {"out_loop", "in_loop"} =>
    LET d == IF pc = "out_loop" THEN "out" ELSE "in"
    IN  /\ eit'.pos = eit.pos + 1
        /\ probe'[d].advances = probe[d].advances + 1
        /\ probe'[d].last = eit'.pos

C16_ScansEnd ==
  /\ (pc = "out_init") ~> (pc = "out_round")
  /\ (pc = "in_init") ~> (pc = "in_round")
  /\ (pc = "out_init") ~> Returned

C16_Terminates == C16_ScansEnd /\ [](C16_Bounded) /\ [][C16_Iteration]_vars

\* The record of a query whose outgoing scan skipped an edge and counted one
\* and whose incoming scan advanced over every edge from its seek place on.
C16_Witness ==
  /\ Returned
  /\ probe.out.advances >= 2
  /\ probe.out.counted # {}
  /\ probe.out.reads \ probe.out.counted # {}
  /\ probe.in.advances = EdgesFrom(txn.in, probe.in)
  /\ probe.in.advances >= 1

(***************************************************************************)
(* C17: the loops read the timestamp and the amount of an edge only while  *)
(* the labeled cursor is valid: every edge read is a real edge of the      *)
(* target label, never a place past the end of the list and never an edge  *)
(* of another label, also when edges of other labels come before or after  *)
(* the transfer edges.                                                     *)
(***************************************************************************)
OnTransfer(edges, i) == i \in 1..Len(edges) /\ IsTransfer(edges, i)

C17_ReadsOnTransfer ==
  /\ \A i \in probe.out.reads : OnTransfer(txn.out, i)
  /\ \A i \in probe.in.reads : OnTransfer(txn.in, i)

C17_ReadStep ==
  /\ probe'.out.reads # probe.out.reads =>
        /\ eit.valid_
        /\ OnTransfer(txn.out, eit.pos)
        /\ probe'.out.reads = probe.out.reads \cup {eit.pos}
  /\ probe'.in.reads # probe.in.reads =>
        /\ eit.valid_
        /\ OnTransfer(txn.in, eit.pos)
        /\ probe'.in.reads = probe.in.reads \cup {eit.pos}

C17_ReadsWhileValid == [](C17_ReadsOnTransfer) /\ [][C17_ReadStep]_vars

\* The out scan read the one transfer edge that lies between an edge of a
\* lower label and an edge of a higher label, and came to rest on the latter.
C17_Witness ==
  /\ Returned
  /\ Len(txn.out) = 3
  /\ txn.out[1].lid < TransferLid
  /\ txn.out[3].lid > TransferLid
  /\ probe.out.reads = {2}
  /\ probe.out.last = 3
  /\ ~probe.out.broke

(***************************************************************************)
(* C18: for every request with end_time <= start_time both directions      *)
(* report count 0, sum 0.0 and max -1; each scan skips the edges at        *)
(* start_time and stops on the first edge with a later timestamp without   *)
(* counting it.                                                            *)
(***************************************************************************)
AtStart(edges, p) == {i \in Yielded(edges, p) : edges[i].ts = start_time}

AfterStart(edges, p) == {i \in Yielded(edges, p) : edges[i].ts > start_time}

EmptyWindowScan(edges, p) ==
  /\ p.counted = {}
  /\ \A i \in AtStart(edges, p) : i \in p.reads /\ i < p.last
  /\ IF AfterStart(edges, p) # {}
       THEN StoppedAt(p, SetMin(AfterStart(edges, p)))
       ELSE ~p.broke /\ p.reads = AtStart(edges, p)

C18_EmptyWindow ==
  (Returned /\ end_time <= start_time) =>
    /\ Field(1) = 0 /\ Field(2) = -One /\ Field(3) = 0
    /\ Field(4) = 0 /\ Field(5) = -One /\ Field(6) = 0
    /\ EmptyWindowScan(txn.out, probe.out)
    /\ EmptyWindowScan(txn.in, probe.in)

\* With an empty window, the out scan skipped an edge at start_time and
\* stopped on a later one; the in scan skipped its only edge.
C18_Witness ==
  /\ Returned
  /\ end_time <= start_time
  /\ AtStart(txn.out, probe.out) # {}
  /\ probe.out.broke
  /\ probe.out.advances >= 1
  /\ probe.in.advances = 1
  /\ ~probe.in.broke

=============================================================================
